---- MODULE Spec2Model ----
(***************************************************************************)
(* GenericJsonProtobufSerializer (src/generic_json_protobuf_serializer.py) *)
(* as a state machine: one instance, the files it reads and writes, and    *)
(* one action per public method.                                           *)
(*                                                                         *)
(* Python values are records tagged with their Python type; protobuf       *)
(* messages are records tagged with their message type; files hold JSON    *)
(* text (strings) or protobuf wire bytes (sequences of 0..255).            *)
(* Numbers are small non-negative integers, for which the conversion to a  *)
(* double and back is exact; strings and keys have at most one character.  *)
(***************************************************************************)
EXTENDS Integers, Sequences, FiniteSets, TLC

----------------------------------------------------------------------------
(* Python values, as json.load / json.loads / MessageToDict return them.   *)

PyNone == [kind |-> "None"]
PyBool(b) == [kind |-> "bool", b |-> b]
PyInt(n) == [kind |-> "int", n |-> n]
PyStr(s) == [kind |-> "str", s |-> s]
PyList(items) == [kind |-> "list", items |-> items]
PyDict(fields) == [kind |-> "dict", fields |-> fields]

EmptyMap == <<>>

(* Keys of a mapping in iteration order.  Every mapping of the model is    *)
(* built with its keys in ascending order, which is then the insertion     *)
(* order Python iterates in.                                               *)
KeyOrder == <<"a", "b", "x">>

Keys(fields) == SelectSeq(KeyOrder, LAMBDA k : k \in DOMAIN fields)

(* bool(v) of a Python value: the test behind `if self.data` and           *)
(* `not self.data`.                                                        *)
PyTruthy(v) ==
    CASE v.kind = "None" -> FALSE
      [] v.kind = "bool" -> v.b
      [] v.kind = "int" -> v.n # 0
      [] v.kind = "str" -> v.s # ""
      [] v.kind = "list" -> Len(v.items) > 0
      [] v.kind = "dict" -> DOMAIN v.fields # {}

----------------------------------------------------------------------------
(* google.protobuf.Struct and Value messages.                              *)

Struct(fields) == [msg |-> "Struct", fields |-> fields]
NullValue == [msg |-> "Value", kind |-> "null_value"]
NumberValue(n) == [msg |-> "Value", kind |-> "number_value", number |-> n]
StringValue(s) == [msg |-> "Value", kind |-> "string_value", string |-> s]
BoolValue(b) == [msg |-> "Value", kind |-> "bool_value", bool |-> b]
StructValue(st) == [msg |-> "Value", kind |-> "struct_value", struct |-> st]
ListValue(vs) == [msg |-> "Value", kind |-> "list_value", values |-> vs]

(* Struct defines __len__ as the number of its fields, so bool(message) is *)
(* False for a Struct with no fields.                                      *)
StructTruthy(st) == DOMAIN st.fields # {}

(* bool(self.proto_data): proto_data is None or a Struct.                  *)
ProtoTruthy(p) == IF p = PyNone THEN FALSE ELSE StructTruthy(p)

----------------------------------------------------------------------------
(* Outcomes of a call: a normal return or a raised exception.              *)

Ok(v) == [ok |-> TRUE, value |-> v]
Raise(e, m) == [ok |-> FALSE, error |-> e, message |-> m]

----------------------------------------------------------------------------
(* json.loads / json.load on the JSON texts of the model.                  *)

TextComplex == "{\"a\": 1, \"b\": [true, null, \"x\"]}"
TextOther == "{\"a\": 2}"
TextEmptyObject == "{}"
TextEmptyList == "[]"
TextNull == "null"
TextBad == "{\"a\": }"

ValComplex ==
    PyDict([a |-> PyInt(1),
            b |-> PyList(<<PyBool(TRUE), PyNone, PyStr("x")>>)])
ValOther == PyDict([a |-> PyInt(2)])
ValEmptyObject == PyDict(EmptyMap)
ValEmptyList == PyList(<<>>)

json_loads(t) ==
    CASE t = TextComplex -> Ok(ValComplex)
      [] t = TextOther -> Ok(ValOther)
      [] t = TextEmptyObject -> Ok(ValEmptyObject)
      [] t = TextEmptyList -> Ok(ValEmptyList)
      [] t = TextNull -> Ok(PyNone)
      [] OTHER -> Raise("JSONDecodeError", t)

(* json.dump(value, file, indent=2, ensure_ascii=False): the text written. *)
RECURSIVE json_dumps(_, _)
RECURSIVE DumpItems(_, _, _)
RECURSIVE DumpFields(_, _, _, _)

DumpItems(items, i, ind) ==
    ind \o json_dumps(items[i], ind)
        \o (IF i < Len(items) THEN ",\n" \o DumpItems(items, i + 1, ind) ELSE "")

DumpFields(fields, ks, i, ind) ==
    ind \o "\"" \o ks[i] \o "\": " \o json_dumps(fields[ks[i]], ind)
        \o (IF i < Len(ks) THEN ",\n" \o DumpFields(fields, ks, i + 1, ind) ELSE "")

json_dumps(v, ind) ==
    CASE v.kind = "None" -> "null"
      [] v.kind = "bool" -> (IF v.b THEN "true" ELSE "false")
      [] v.kind = "int" -> ToString(v.n)
      [] v.kind = "str" -> "\"" \o v.s \o "\""
      [] v.kind = "list" ->
            IF v.items = <<>> THEN "[]"
            ELSE "[\n" \o DumpItems(v.items, 1, ind \o "  ") \o "\n" \o ind \o "]"
      [] v.kind = "dict" ->
            IF DOMAIN v.fields = {} THEN "{}"
            ELSE "{\n" \o DumpFields(v.fields, Keys(v.fields), 1, ind \o "  ")
                       \o "\n" \o ind \o "}"

----------------------------------------------------------------------------
(* json_format.ParseDict(json_data, Struct()): Python value -> message.    *)

RECURSIVE ConvertValue(_)

ConvertStruct(fields) == Struct([k \in DOMAIN fields |-> ConvertValue(fields[k])])

ConvertValue(v) ==
    CASE v.kind = "None" -> NullValue
      [] v.kind = "bool" -> BoolValue(v.b)
      [] v.kind = "int" -> NumberValue(v.n)
      [] v.kind = "str" -> StringValue(v.s)
      [] v.kind = "list" ->
            ListValue([i \in DOMAIN v.items |-> ConvertValue(v.items[i])])
      [] v.kind = "dict" -> StructValue(ConvertStruct(v.fields))

(* A Struct must be given as a dict: anything else is a ParseError.        *)
ParseDict(json_data) ==
    IF json_data.kind = "dict"
    THEN Ok(ConvertStruct(json_data.fields))
    ELSE Raise("ParseError", "Struct must be in a dict")

(* json_format.MessageToDict(message): message -> Python value.  An        *)
(* integral number_value comes back as an int.                             *)
RECURSIVE ValueToObject(_)

StructToObject(st) == PyDict([k \in DOMAIN st.fields |-> ValueToObject(st.fields[k])])

ValueToObject(m) ==
    CASE m.kind = "null_value" -> PyNone
      [] m.kind = "bool_value" -> PyBool(m.bool)
      [] m.kind = "number_value" -> PyInt(m.number)
      [] m.kind = "string_value" -> PyStr(m.string)
      [] m.kind = "list_value" ->
            PyList([i \in DOMAIN m.values |-> ValueToObject(m.values[i])])
      [] m.kind = "struct_value" -> StructToObject(m.struct)

MessageToDict(st) == StructToObject(st)

----------------------------------------------------------------------------
(* Message.SerializeToString(): the protobuf wire encoding.  Every length  *)
(* of the model is below 128 and takes one byte.                           *)

CharCode == [a |-> 97, b |-> 98, x |-> 120]

StrBytes(s) == IF s = "" THEN <<>> ELSE <<CharCode[s]>>

Pow2(e) == CASE e = 0 -> 1 [] e = 1 -> 2 [] e = 2 -> 4 [] e = 3 -> 8 [] e = 4 -> 16

Log2(n) == CHOOSE e \in 0..4 : Pow2(e) <= n /\ n < 2 * Pow2(e)

(* The 8 little-endian bytes of the IEEE-754 double equal to n, 0 <= n < 32: *)
(* biased exponent 1023 + e in the top 11 bits, the fraction's first four  *)
(* bits after it, all lower bits zero.                                     *)
DoubleBytes(n) ==
    IF n = 0 THEN <<0, 0, 0, 0, 0, 0, 0, 0>>
    ELSE LET e == Log2(n)
             biased == 1023 + e
             frac4 == ((n - Pow2(e)) * 16) \div Pow2(e)
         IN  <<0, 0, 0, 0, 0, 0, (biased % 16) * 16 + frac4, biased \div 16>>

WithLen(tag, payload) == <<tag, Len(payload)>> \o payload

RECURSIVE SerializeValue(_)
RECURSIVE SerializeEntries(_, _, _)
RECURSIVE SerializeItems(_, _)

(* map<string, Value> fields = 1: one length-delimited entry per key, the  *)
(* key as field 1 and the value as field 2 of the entry.                   *)
SerializeEntries(fields, ks, i) ==
    IF i > Len(ks) THEN <<>>
    ELSE WithLen(10, WithLen(10, StrBytes(ks[i]))
                        \o WithLen(18, SerializeValue(fields[ks[i]])))
         \o SerializeEntries(fields, ks, i + 1)

SerializeStruct(st) == SerializeEntries(st.fields, Keys(st.fields), 1)

(* repeated Value values = 1 of ListValue. *)
SerializeItems(vs, i) ==
    IF i > Len(vs) THEN <<>>
    ELSE WithLen(10, SerializeValue(vs[i])) \o SerializeItems(vs, i + 1)

(* The oneof of Value: null_value = 1 (varint), number_value = 2 (fixed64), *)
(* string_value = 3, bool_value = 4 (varint), struct_value = 5,            *)
(* list_value = 6.                                                         *)
SerializeValue(m) ==
    CASE m.kind = "null_value" -> <<8, 0>>
      [] m.kind = "number_value" -> <<17>> \o DoubleBytes(m.number)
      [] m.kind = "string_value" -> WithLen(26, StrBytes(m.string))
      [] m.kind = "bool_value" -> <<32, IF m.bool THEN 1 ELSE 0>>
      [] m.kind = "struct_value" -> WithLen(42, SerializeStruct(m.struct))
      [] m.kind = "list_value" -> WithLen(50, SerializeItems(m.values, 1))

SerializeToString(st) == SerializeStruct(st)

----------------------------------------------------------------------------
(* Message.ParseFromString(bytes): the decoder of the same encoding.  A    *)
(* buffer that ends inside a field, or a field the model does not produce, *)
(* is a DecodeError.  A later entry for a key replaces an earlier one.     *)

DecodeError == Raise("DecodeError", "Error parsing message")

BytesFrom(bs, from) == SubSeq(bs, from, Len(bs))

BytesStr(bs) ==
    IF bs = <<>> THEN Ok("")
    ELSE IF Len(bs) = 1 /\ \E s \in DOMAIN CharCode : CharCode[s] = bs[1]
         THEN Ok(CHOOSE s \in DOMAIN CharCode : CharCode[s] = bs[1])
         ELSE DecodeError

BytesDouble(bs) ==
    IF Len(bs) = 8 /\ \E n \in 0..31 : DoubleBytes(n) = bs
    THEN Ok(CHOOSE n \in 0..31 : DoubleBytes(n) = bs)
    ELSE DecodeError

(* A length-delimited field with the given tag at the head of bs: its      *)
(* payload and the bytes after it.                                         *)
Delimited(bs, tag) ==
    IF Len(bs) >= 2 /\ bs[1] = tag /\ Len(bs) >= 2 + bs[2]
    THEN Ok([payload |-> SubSeq(bs, 3, 2 + bs[2]), rest |-> BytesFrom(bs, 3 + bs[2])])
    ELSE DecodeError

RECURSIVE ParseValue(_)
RECURSIVE ParseEntries(_)
RECURSIVE ParseItems(_)

ParseEntry(bs) ==
    LET k == Delimited(bs, 10) IN
    IF ~k.ok THEN DecodeError
    ELSE LET key == BytesStr(k.value.payload)
             v == Delimited(k.value.rest, 18)
         IN  IF ~key.ok \/ ~v.ok THEN DecodeError
             ELSE IF v.value.rest # <<>> THEN DecodeError
             ELSE LET val == ParseValue(v.value.payload) IN
                  IF ~val.ok THEN DecodeError
                  ELSE Ok([key |-> key.value, value |-> val.value])

ParseEntries(bs) ==
    IF bs = <<>> THEN Ok(EmptyMap)
    ELSE LET d == Delimited(bs, 10) IN
         IF ~d.ok THEN DecodeError
         ELSE LET e == ParseEntry(d.value.payload)
                  rest == ParseEntries(d.value.rest)
              IN  IF ~e.ok \/ ~rest.ok THEN DecodeError
                  ELSE Ok(rest.value @@ (e.value.key :> e.value.value))

ParseItems(bs) ==
    IF bs = <<>> THEN Ok(<<>>)
    ELSE LET d == Delimited(bs, 10) IN
         IF ~d.ok THEN DecodeError
         ELSE LET v == ParseValue(d.value.payload)
                  rest == ParseItems(d.value.rest)
              IN  IF ~v.ok \/ ~rest.ok THEN DecodeError
                  ELSE Ok(<<v.value>> \o rest.value)

ParseValue(bs) ==
    IF bs = <<>> THEN DecodeError
    ELSE CASE bs[1] = 8 -> (IF bs = <<8, 0>> THEN Ok(NullValue) ELSE DecodeError)
           [] bs[1] = 17 ->
                LET n == BytesDouble(BytesFrom(bs, 2)) IN
                IF n.ok THEN Ok(NumberValue(n.value)) ELSE DecodeError
           [] bs[1] = 26 ->
                LET d == Delimited(bs, 26) IN
                IF ~d.ok THEN DecodeError
                ELSE IF d.value.rest # <<>> THEN DecodeError
                ELSE LET s == BytesStr(d.value.payload) IN
                     IF s.ok THEN Ok(StringValue(s.value)) ELSE DecodeError
           [] bs[1] = 32 ->
                IF Len(bs) = 2 /\ bs[2] \in {0, 1}
                THEN Ok(BoolValue(bs[2] = 1)) ELSE DecodeError
           [] bs[1] = 42 ->
                LET d == Delimited(bs, 42) IN
                IF ~d.ok THEN DecodeError
                ELSE IF d.value.rest # <<>> THEN DecodeError
                ELSE LET f == ParseEntries(d.value.payload) IN
                     IF f.ok THEN Ok(StructValue(Struct(f.value))) ELSE DecodeError
           [] bs[1] = 50 ->
                LET d == Delimited(bs, 50) IN
                IF ~d.ok THEN DecodeError
                ELSE IF d.value.rest # <<>> THEN DecodeError
                ELSE LET items == ParseItems(d.value.payload) IN
                     IF items.ok THEN Ok(ListValue(items.value)) ELSE DecodeError
           [] OTHER -> DecodeError

ParseFromString(bs) ==
    LET f == ParseEntries(bs) IN
    IF f.ok THEN Ok(Struct(f.value)) ELSE DecodeError

----------------------------------------------------------------------------
(* The files.  Input files hold JSON text, protobuf files hold bytes; the  *)
(* output paths are writable.                                              *)

Absent == [type |-> "absent"]
TextFile(t) == [type |-> "text", text |-> t]
BytesFile(b) == [type |-> "bytes", bytes |-> b]

InputPaths ==
    {"complex.json", "another_complex.json", "empty.json", "list.json",
     "bad.json", "missing.json"}
ProtobufPaths ==
    {"complex-output.pb", "another_complex-output.pb", "zero.pb", "truncated.pb"}
JsonOutputPaths == {"output_from_protobuf.json", "out.json"}
Paths == InputPaths \cup ProtobufPaths \cup JsonOutputPaths

(* A protobuf file cut off one byte before its end. *)
TruncatedBytes ==
    LET bs == SerializeToString(ConvertStruct(ValComplex.fields))
    IN  SubSeq(bs, 1, Len(bs) - 1)

(* The files before the first call: "zero.pb" exists and holds no bytes,   *)
(* "truncated.pb" holds a cut-off message, "missing.json" and the other    *)
(* output files do not exist.                                              *)
InitialFiles ==
    [p \in Paths |->
        CASE p = "complex.json" -> TextFile(TextComplex)
          [] p = "another_complex.json" -> TextFile(TextOther)
          [] p = "empty.json" -> TextFile(TextEmptyObject)
          [] p = "list.json" -> TextFile(TextEmptyList)
          [] p = "bad.json" -> TextFile(TextBad)
          [] p = "zero.pb" -> BytesFile(<<>>)
          [] p = "truncated.pb" -> BytesFile(TruncatedBytes)
          [] OTHER -> Absent]

----------------------------------------------------------------------------
(* The methods, as functions of the instance and the files.  s is a record *)
(* of the instance's attributes, the files (fs) and the paths the call has *)
(* written so far (wrote); a method yields the state it leaves and its     *)
(* outcome.                                                                *)

Returns(s, v) == [st |-> s, out |-> Ok(v)]
Raises(s, e, m) == [st |-> s, out |-> Raise(e, m)]

(* open(path, 'wb' or 'w') and write. *)
WriteFile(s, path, content) ==
    [s EXCEPT !.fs = [@ EXCEPT ![path] = content], !.wrote = @ \cup {path}]

(* load_data with the data reset before the file is opened. *)
load_data_clearing(s) ==
    LET f == s.fs[s.input_file_path] IN
    IF f.type = "absent"
    THEN Raises([s EXCEPT !.data = PyNone], "FileNotFoundError", s.input_file_path)
    ELSE LET r == json_loads(f.text) IN
         IF r.ok
         THEN Returns([s EXCEPT !.data = r.value], r.value)
         ELSE Raises(s, "JSONDecodeError", s.input_file_path)

load_data(s) ==
    LET f == s.fs[s.input_file_path] IN
    IF f.type = "absent"
    THEN Raises(s, "FileNotFoundError", s.input_file_path)
    ELSE LET r == json_loads(f.text) IN
         IF r.ok
         THEN Returns([s EXCEPT !.data = r.value], r.value)
         ELSE Raises(s, "JSONDecodeError", s.input_file_path)

json_to_protobuf(s, json_data) ==
    IF json_data = PyNone /\ s.data = PyNone
    THEN Raises(s, "ValueError", "No data to convert")
    ELSE LET jd == IF json_data = PyNone THEN s.data ELSE json_data
             r == ParseDict(jd)
         IN  IF r.ok
             THEN Returns([s EXCEPT !.proto_data = r.value], r.value)
             ELSE Raises(s, "ParseError", r.message)

save_protobuf(s) ==
    LET c == IF ~ProtoTruthy(s.proto_data)
             THEN IF PyTruthy(s.data)
                  THEN json_to_protobuf(s, PyNone)
                  ELSE Raises(s, "ValueError", "No data to save")
             ELSE Returns(s, PyNone)
    IN  IF ~c.out.ok THEN c
        ELSE Returns(WriteFile(c.st, c.st.protobuf_output_path,
                               BytesFile(SerializeToString(c.st.proto_data))),
                     PyNone)

(* load_protobuf with a buffer of no bytes refused as malformed. *)
load_protobuf_rejecting_empty(s) ==
    LET f == s.fs[s.protobuf_output_path] IN
    IF f.type = "absent"
    THEN Raises(s, "FileNotFoundError", s.protobuf_output_path)
    ELSE LET r == IF f.bytes = <<>> THEN DecodeError ELSE ParseFromString(f.bytes) IN
         IF r.ok
         THEN Returns([s EXCEPT !.proto_data = r.value], r.value)
         ELSE Raises(s, r.error, r.message)

load_protobuf(s) ==
    LET f == s.fs[s.protobuf_output_path] IN
    IF f.type = "absent"
    THEN Raises(s, "FileNotFoundError", s.protobuf_output_path)
    ELSE LET r == ParseFromString(f.bytes) IN
         IF r.ok
         THEN Returns([s EXCEPT !.proto_data = r.value], r.value)
         ELSE Raises(s, r.error, r.message)

protobuf_to_json(s) ==
    IF ~ProtoTruthy(s.proto_data)
    THEN Raises(s, "ValueError", "No protobuf data to convert")
    ELSE LET json_data == MessageToDict(s.proto_data) IN
         Returns([s EXCEPT !.data = json_data], json_data)

(* output_file_path is PyNone (the default) or PyStr(path). *)
save_json(s, output_file_path) ==
    LET path == IF output_file_path = PyNone
                THEN s.json_output_path ELSE output_file_path.s
        c == IF ~PyTruthy(s.data)
             THEN IF ProtoTruthy(s.proto_data)
                  THEN protobuf_to_json(s)
                  ELSE Raises(s, "ValueError", "No data to save")
             ELSE Returns(s, PyNone)
    IN  IF ~c.out.ok THEN c
        ELSE Returns(WriteFile(c.st, path, TextFile(json_dumps(c.st.data, ""))),
                     PyNone)

convert_string(s, json_string) ==
    LET r == json_loads(json_string) IN
    IF ~r.ok THEN Raises(s, "JSONDecodeError", json_string)
    ELSE LET p == json_to_protobuf(s, r.value) IN
         IF ~p.out.ok THEN p
         ELSE Returns(p.st, SerializeToString(p.out.value))

(* The finally clause with the second restoring assignment left out. *)
RestoreInputOnly(s, original_input, original_output) ==
    [s EXCEPT !.input_file_path = original_input]

(* The finally clause of convert_file. *)
RestorePaths(s, original_input, original_output) ==
    [s EXCEPT !.input_file_path = original_input,
              !.protobuf_output_path = original_output]

convert_file(s, input_path, output_path) ==
    LET original_input == s.input_file_path
        original_output == s.protobuf_output_path
        s1 == [s EXCEPT !.input_file_path = input_path,
                        !.protobuf_output_path = output_path]
        a == load_data(s1)
        b == IF a.out.ok THEN json_to_protobuf(a.st, PyNone) ELSE a
        c == IF b.out.ok THEN save_protobuf(b.st) ELSE b
    IN  [st |-> RestorePaths(c.st, original_input, original_output),
         out |-> IF c.out.ok THEN Ok(PyNone) ELSE c.out]

----------------------------------------------------------------------------
(* The state: the instance's attributes, the files, and a record of the    *)
(* last call (what it was, its outcome, the paths it wrote).  newest_in    *)
(* and newest_json remember the value most recently brought into the       *)
(* instance; calls counts the calls made.                                  *)

VARIABLES input_file_path, protobuf_output_path, json_output_path,
          data, proto_data, fs, last, newest_in, newest_json, calls

vars == <<input_file_path, protobuf_output_path, json_output_path,
          data, proto_data, fs, last, newest_in, newest_json, calls>>

MaxCalls == 4

Self ==
    [input_file_path |-> input_file_path,
     protobuf_output_path |-> protobuf_output_path,
     json_output_path |-> json_output_path,
     data |-> data, proto_data |-> proto_data, fs |-> fs, wrote |-> {}]

(* __init__: the paths given, no data, no message. *)
Init ==
    /\ input_file_path \in InputPaths
    /\ protobuf_output_path \in {"complex-output.pb", "zero.pb", "truncated.pb"}
    /\ json_output_path = "output_from_protobuf.json"
    /\ data = PyNone
    /\ proto_data = PyNone
    /\ fs = InitialFiles
    /\ last = [op |-> "__init__", arg |-> <<>>, out |-> Ok(PyNone), wrote |-> {}]
    /\ newest_in = PyNone
    /\ newest_json = PyNone
    /\ calls = 0

(* A call that ended as r: the instance and the files take r's state. *)
Call(op, arg, r) ==
    /\ calls < MaxCalls
    /\ calls' = calls + 1
    /\ input_file_path' = r.st.input_file_path
    /\ protobuf_output_path' = r.st.protobuf_output_path
    /\ json_output_path' = r.st.json_output_path
    /\ data' = r.st.data
    /\ proto_data' = r.st.proto_data
    /\ fs' = r.st.fs
    /\ last' = [op |-> op, arg |-> arg, out |-> r.out, wrote |-> r.st.wrote]

(* newest_in: the value brought in by the latest successful load_data,    *)
(* json_to_protobuf, convert_string or load_protobuf.                      *)
(* newest_json: the value brought in by the latest successful load_data,   *)
(* load_protobuf or protobuf_to_json, or by a conversion when the instance *)
(* holds no data to write in its place.                                    *)
Brought(v) == newest_in' = v /\ newest_json' = v

Converted(v) ==
    /\ newest_in' = v
    /\ newest_json' = IF PyTruthy(data) THEN newest_json ELSE v

Decoded(v) == newest_in' = newest_in /\ newest_json' = v

BroughtNothing == UNCHANGED <<newest_in, newest_json>>

LoadData ==
    LET r == load_data(Self) IN
    /\ Call("load_data", <<>>, r)
    /\ IF r.out.ok THEN Brought(r.out.value) ELSE BroughtNothing

JsonArgs == {PyNone, ValOther, ValEmptyObject, ValEmptyList}

JsonToProtobuf ==
    \E json_data \in JsonArgs :
        LET r == json_to_protobuf(Self, json_data) IN
        /\ Call("json_to_protobuf", <<json_data>>, r)
        /\ IF r.out.ok THEN Converted(MessageToDict(r.out.value)) ELSE BroughtNothing

SaveProtobuf ==
    LET r == save_protobuf(Self) IN
    /\ Call("save_protobuf", <<>>, r)
    /\ BroughtNothing

LoadProtobuf ==
    LET r == load_protobuf(Self) IN
    /\ Call("load_protobuf", <<>>, r)
    /\ IF r.out.ok THEN Brought(MessageToDict(r.out.value)) ELSE BroughtNothing

ProtobufToJson ==
    LET r == protobuf_to_json(Self) IN
    /\ Call("protobuf_to_json", <<>>, r)
    /\ IF r.out.ok THEN Decoded(r.out.value) ELSE BroughtNothing

SaveJson ==
    \E output_file_path \in {PyNone, PyStr("out.json")} :
        LET r == save_json(Self, output_file_path) IN
        /\ Call("save_json", <<output_file_path>>, r)
        /\ BroughtNothing

JsonStrings == {TextOther, TextEmptyObject, TextEmptyList, TextNull, TextBad}

ConvertString ==
    \E json_string \in JsonStrings :
        LET r == convert_string(Self, json_string) IN
        /\ Call("convert_string", <<json_string>>, r)
        /\ IF r.out.ok
           THEN Converted(MessageToDict(r.st.proto_data))
           ELSE BroughtNothing

(* convert_file brings a value in as soon as its load_data has succeeded. *)
ConvertFile ==
    \E input_path \in InputPaths, output_path \in {"another_complex-output.pb"} :
        LET r == convert_file(Self, input_path, output_path)
            loaded == load_data([Self EXCEPT !.input_file_path = input_path])
        IN  /\ Call("convert_file", <<input_path, output_path>>, r)
            /\ IF loaded.out.ok THEN Brought(loaded.out.value) ELSE BroughtNothing

Next ==
    \/ LoadData
    \/ JsonToProtobuf
    \/ SaveProtobuf
    \/ LoadProtobuf
    \/ ProtobufToJson
    \/ SaveJson
    \/ ConvertString
    \/ ConvertFile

Spec == Init /\ [][Next]_vars

----------------------------------------------------------------------------
(* Properties.                                                             *)

(* The bytes a JSON object encodes to. *)
Encoding(v) == SerializeToString(ParseDict(v).value)

EmptyStruct == Struct(EmptyMap)

(* C1: binary round trip.  After json_to_protobuf(v) with an explicit JSON *)
(* value v (a top-level empty list and empty map included) the call has    *)
(* returned, and decoding the message with protobuf_to_json succeeds and   *)
(* yields a value equal to v.                                              *)
C1_BinaryRoundTrip ==
    (last.op = "json_to_protobuf" /\ last.arg[1] # PyNone) =>
        /\ last.out.ok
        /\ LET d == protobuf_to_json(Self) IN
           d.out.ok /\ d.out.value = last.arg[1]

(* C2, as claimed: load_protobuf on an existing file of zero bytes raises  *)
(* a decode error.                                                         *)
C2_ZeroLengthFails ==
    (last.op = "load_protobuf" /\ fs[protobuf_output_path] = BytesFile(<<>>)) =>
        (~last.out.ok /\ last.out.error = "DecodeError")

(* C2, amended: load_protobuf on an existing file of zero bytes returns    *)
(* the message with no fields, the encoding of {}, and installs it in      *)
(* proto_data.                                                             *)
C2_ZeroLengthIsEmptyStruct ==
    (last.op = "load_protobuf" /\ fs[protobuf_output_path] = BytesFile(<<>>)) =>
        (last.out = Ok(EmptyStruct) /\ proto_data = EmptyStruct)

(* C2 witness: a zero-byte file has been loaded over an instance that held *)
(* data.                                                                   *)
C2_Witness ==
    /\ last.op = "load_protobuf"
    /\ fs[protobuf_output_path] = BytesFile(<<>>)
    /\ proto_data = EmptyStruct
    /\ data # PyNone

(* The JSON object an input file holds, if it holds one. *)
HoldsObject(path) ==
    /\ fs[path].type = "text"
    /\ json_loads(fs[path].text).ok
    /\ json_loads(fs[path].text).value.kind = "dict"

(* C3: convert_file on an existing file holding a valid JSON object (the   *)
(* empty object included) returns without raising and has written the      *)
(* object's encoding to output_path; and whatever the input, the only      *)
(* errors it raises are FileNotFoundError, JSONDecodeError and ParseError. *)
C3_ConvertFileSucceeds ==
    last.op = "convert_file" =>
        /\ HoldsObject(last.arg[1]) =>
              /\ last.out.ok
              /\ fs[last.arg[2]] =
                    BytesFile(Encoding(json_loads(fs[last.arg[1]].text).value))
        /\ ~last.out.ok =>
              last.out.error \in {"FileNotFoundError", "JSONDecodeError", "ParseError"}

(* C4: protobuf_to_json raises ValueError exactly when proto_data is None  *)
(* (nothing was ever loaded or converted); otherwise it returns the        *)
(* decoded message and stores it in data.                                  *)
C4_ValueErrorOnlyWithoutMessage ==
    last.op = "protobuf_to_json" =>
        IF proto_data = PyNone
        THEN ~last.out.ok /\ last.out.error = "ValueError"
        ELSE last.out = Ok(MessageToDict(proto_data)) /\ data = MessageToDict(proto_data)

(* C5: no partial success.  A call that raises leaves data and proto_data  *)
(* as they were and has written no file.                                   *)
C5_NoPartialSuccess ==
    [][~last'.out.ok =>
          (data' = data /\ proto_data' = proto_data /\ last'.wrote = {} /\ fs' = fs)]_vars

(* C6: convert_file leaves the three paths as they were, whether it        *)
(* returns or raises.                                                      *)
C6_ConvertFileKeepsPaths ==
    [][last'.op = "convert_file" =>
          /\ input_file_path' = input_file_path
          /\ protobuf_output_path' = protobuf_output_path
          /\ json_output_path' = json_output_path]_vars

(* C6 witness: a convert_file given other paths than the instance's has    *)
(* raised after its load_data succeeded.                                   *)
C6_Witness ==
    /\ last.op = "convert_file"
    /\ ~last.out.ok
    /\ last.out.error = "ValueError"
    /\ last.arg[1] # input_file_path
    /\ last.arg[2] # protobuf_output_path

(* The instance as it is right after construction, over the same files. *)
FreshSelf == [Self EXCEPT !.data = PyNone, !.proto_data = PyNone]

(* C7: the outcome of convert_string(t), bytes or error, is the one a      *)
(* freshly constructed instance gives for t: it does not depend on data or *)
(* proto_data.  (convert_string reads no file and leaves data alone, so    *)
(* data here is the data the call saw.)                                    *)
C7_ConvertStringIgnoresState ==
    last.op = "convert_string" =>
        last.out = convert_string(FreshSelf, last.arg[1]).out

(* C8: load_data on a missing input_file_path, and load_protobuf on a      *)
(* missing protobuf_output_path, raise FileNotFoundError carrying that     *)
(* path and leave data and proto_data unchanged.                           *)
C8_MissingFileRaises ==
    [][/\ (last'.op = "load_data" /\ fs[input_file_path].type = "absent") =>
             /\ last'.out = Raise("FileNotFoundError", input_file_path)
             /\ data' = data /\ proto_data' = proto_data
       /\ (last'.op = "load_protobuf" /\ fs[protobuf_output_path].type = "absent") =>
             /\ last'.out = Raise("FileNotFoundError", protobuf_output_path)
             /\ data' = data /\ proto_data' = proto_data]_vars

(* C8 witness: load_data has failed on a missing file while the instance   *)
(* held data.                                                              *)
C8_Witness ==
    /\ last.op = "load_data"
    /\ last.out = Raise("FileNotFoundError", input_file_path)
    /\ fs[input_file_path].type = "absent"
    /\ data # PyNone

(* C9: whenever save_protobuf has written the output file, the bytes are   *)
(* the encoding of the value most recently brought into the instance.      *)
C9_SaveProtobufWritesNewest ==
    (last.op = "save_protobuf" /\ last.out.ok) =>
        /\ ParseDict(newest_in).ok
        /\ fs[protobuf_output_path] = BytesFile(Encoding(newest_in))

(* C10: whenever save_json has written a file, the text is the JSON of the *)
(* value most recently brought into the instance.                          *)
C10_SaveJsonWritesNewest ==
    (last.op = "save_json" /\ last.out.ok) =>
        \A p \in last.wrote : fs[p] = TextFile(json_dumps(newest_json, ""))

====
